---- MODULE Spec2Model ----
(***************************************************************************)
(* Model of halfPower.py: find_peaks, interp_roots and find_damping.       *)
(*                                                                         *)
(* Numbers.  The samples are floating-point numbers and find_damping       *)
(* shifts them by amp/sqrt(2).  The model computes exactly in the field    *)
(* Q(sqrt 2): a finite number is (a + b*sqrt(2))/d with integers a, b and  *)
(* d > 0, kept in lowest terms, so that equal numbers are equal records.   *)
(* The IEEE results of a division by zero are kept as the three special    *)
(* values nan, pinf and ninf.  Rounding error of the floating-point        *)
(* operations is not modelled.                                             *)
(*                                                                         *)
(* Indices.  Peak indices are the 0-based indices of the Python code; the  *)
(* sequences of the model are 1-based, so sample j of the code is y[j+1].  *)
(*                                                                         *)
(* np.unique keeps every nan of its input in numpy before 1.21 and one nan *)
(* from 1.21 on; equal_nan, drawn at the start, tells which.               *)
(***************************************************************************)
EXTENDS Integers, Sequences, FiniteSets

\* Longest sample series drawn as input.
MaxLen == 4
\* Frequencies are drawn from 0..MaxX.
MaxX == 3
\* Integer amplitudes are drawn from -1..MaxAmp.
MaxAmp == 1

VARIABLES
    x,          \* frequency column of the input series (xy[:,0])
    y,          \* amplitude column of the input series (xy[:,1])
    equal_nan,  \* whether the numpy build's np.unique collapses several NaN
    pc,         \* which function has been called and how far it is
    peaks,      \* value returned by find_peaks(y)
    roots,      \* value returned by interp_roots(x, y)
    todo,       \* peak indices the loop of find_damping has still to visit
    damping     \* the list `damping` of find_damping

vars == <<x, y, equal_nan, pc, peaks, roots, todo, damping>>

----------------------------------------------------------------------------
(* Arithmetic *)

Abs(n) == IF n < 0 THEN 0 - n ELSE n

RECURSIVE GCD(_, _)
GCD(m, n) == IF n = 0 THEN m ELSE GCD(n, m % n)

NaN == [k |-> "nan", a |-> 0, b |-> 0, d |-> 1]
PInf == [k |-> "pinf", a |-> 0, b |-> 0, d |-> 1]
NInf == [k |-> "ninf", a |-> 0, b |-> 0, d |-> 1]

\* (a + b*sqrt(2))/d in lowest terms with a positive denominator; d # 0.
Norm(a, b, d) ==
    LET g == GCD(GCD(Abs(a), Abs(b)), Abs(d))
        s == IF d < 0 THEN 0 - g ELSE g
    IN  [k |-> "fin", a |-> a \div s, b |-> b \div s, d |-> d \div s]

\* The integer n.
Num(n) == Norm(n, 0, 1)

\* np.sqrt(2)
Sqrt2 == Norm(0, 1, 1)

IsFin(p) == p.k = "fin"

\* Sign of a + b*sqrt(2) for integers a, b (a*a = 2*b*b only when both are 0).
SgnAB(a, b) ==
    IF a = 0 /\ b = 0 THEN 0
    ELSE IF a >= 0 /\ b >= 0 THEN 1
    ELSE IF a <= 0 /\ b <= 0 THEN 0 - 1
    ELSE IF a > 0 THEN (IF a * a > 2 * b * b THEN 1 ELSE 0 - 1)
    ELSE (IF 2 * b * b > a * a THEN 1 ELSE 0 - 1)

\* Sign of a number that is not nan.
Sgn(p) ==
    IF p.k = "pinf" THEN 1
    ELSE IF p.k = "ninf" THEN 0 - 1
    ELSE SgnAB(p.a, p.b)

Neg(p) ==
    IF p.k = "nan" THEN NaN
    ELSE IF p.k = "pinf" THEN NInf
    ELSE IF p.k = "ninf" THEN PInf
    ELSE Norm(0 - p.a, 0 - p.b, p.d)

\* p + q
Add(p, q) ==
    IF p.k = "nan" \/ q.k = "nan" THEN NaN
    ELSE IF IsFin(p) /\ IsFin(q)
         THEN Norm(p.a * q.d + q.a * p.d, p.b * q.d + q.b * p.d, p.d * q.d)
    ELSE IF IsFin(p) THEN q
    ELSE IF IsFin(q) \/ p.k = q.k THEN p
    ELSE NaN

\* p - q
Sub(p, q) == Add(p, Neg(q))

\* p * q
Mul(p, q) ==
    IF p.k = "nan" \/ q.k = "nan" THEN NaN
    ELSE IF IsFin(p) /\ IsFin(q)
         THEN Norm(p.a * q.a + 2 * p.b * q.b, p.a * q.b + p.b * q.a, p.d * q.d)
    ELSE IF Sgn(p) * Sgn(q) = 0 THEN NaN
    ELSE IF Sgn(p) * Sgn(q) > 0 THEN PInf
    ELSE NInf

\* p / q as numpy divides floats: x/0 is nan, inf or -inf (with a warning).
Div(p, q) ==
    IF p.k = "nan" \/ q.k = "nan" THEN NaN
    ELSE IF ~IsFin(q) THEN (IF IsFin(p) THEN Num(0) ELSE NaN)
    ELSE IF Sgn(q) = 0
         THEN (IF Sgn(p) = 0 THEN NaN ELSE IF Sgn(p) > 0 THEN PInf ELSE NInf)
    ELSE IF ~IsFin(p) THEN (IF Sgn(p) * Sgn(q) > 0 THEN PInf ELSE NInf)
    ELSE LET n == q.a * q.a - 2 * q.b * q.b
         IN  Mul(p, Norm(q.d * q.a, 0 - q.d * q.b, n))

\* p <= q and p < q as IEEE compares: every comparison with nan is false.
Leq(p, q) ==
    /\ p.k # "nan" /\ q.k # "nan"
    /\ \/ p = q
       \/ p.k = "ninf" /\ q.k # "ninf"
       \/ q.k = "pinf" /\ p.k # "pinf"
       \/ IsFin(p) /\ IsFin(q) /\ Sgn(Sub(p, q)) <= 0

Lt(p, q) == Leq(p, q) /\ p # q

----------------------------------------------------------------------------
(* numpy helpers *)

\* np.diff(s): s[k+1] - s[k]; empty for fewer than two samples.
diff(s) ==
    IF Len(s) < 2 THEN <<>>
    ELSE [k \in 1..(Len(s) - 1) |-> Sub(s[k + 1], s[k])]

\* np.nonzero(mask)[0]: the 0-based positions of the TRUE entries, ascending.
RECURSIVE nonzeroFrom(_, _)
nonzeroFrom(mask, k) ==
    IF k > Len(mask) THEN <<>>
    ELSE IF mask[k] THEN <<k - 1>> \o nonzeroFrom(mask, k + 1)
    ELSE nonzeroFrom(mask, k + 1)

nonzero(mask) == nonzeroFrom(mask, 1)

\* Sorting order of np.sort: ascending, every nan after every number.
Before(p, q) == p.k # "nan" /\ (q.k = "nan" \/ Lt(p, q))

RECURSIVE insert(_, _)
insert(v, s) ==
    IF s = <<>> THEN <<v>>
    ELSE IF Before(v, Head(s)) THEN <<v>> \o s
    ELSE <<Head(s)>> \o insert(v, Tail(s))

RECURSIVE sort(_)
sort(s) == IF s = <<>> THEN <<>> ELSE insert(Head(s), sort(Tail(s)))

\* Whether np.unique takes two neighbours of the sorted array for one value.
same(p, q, eqnan) == IF p.k = "nan" \/ q.k = "nan" THEN p = q /\ eqnan ELSE p = q

RECURSIVE dedup(_, _)
dedup(s, eqnan) ==
    IF Len(s) < 2 THEN s
    ELSE IF same(s[1], s[2], eqnan) THEN dedup(Tail(s), eqnan)
    ELSE <<s[1]>> \o dedup(Tail(s), eqnan)

\* Mutation: the array sorted, its repeated values kept.
unique_keep_repeats(s, eqnan) == sort(s)

\* np.unique(s): the sorted array without repeated values.
unique(s, eqnan) == dedup(sort(s), eqnan)

----------------------------------------------------------------------------
(* find_peaks *)

\* Mutation: the slope test `yd[1:] <= yd[:-1]` left out.
peak_mask_product_only(yd, k) == Leq(Mul(yd[k + 2], yd[k + 1]), Num(0))

\* Mutation: the sign test `yd[1:]*yd[:-1] <= 0` left out.
peak_mask_slope_only(yd, k) == Leq(yd[k + 2], yd[k + 1])

\* Mutation: the sign test written with < in place of <=.
peak_mask_strict_product(yd, k) ==
    /\ Lt(Mul(yd[k + 2], yd[k + 1]), Num(0))
    /\ Leq(yd[k + 2], yd[k + 1])

\* yd[1:]*yd[:-1] <= 0 and yd[1:] <= yd[:-1], at 0-based position k.
peak_mask(yd, k) ==
    /\ Leq(Mul(yd[k + 2], yd[k + 1]), Num(0))
    /\ Leq(yd[k + 2], yd[k + 1])

\* Mutation: the `1 +` of the return statement left out.
find_peaks_no_offset(ys) ==
    LET yd == diff(ys)
        i == IF Len(yd) < 2 THEN <<>>
             ELSE [k \in 1..(Len(yd) - 1) |-> peak_mask(yd, k - 1)]
    IN  nonzero(i)

find_peaks(ys) ==
    LET yd == diff(ys)
        i == IF Len(yd) < 2 THEN <<>>
             ELSE [k \in 1..(Len(yd) - 1) |-> peak_mask(yd, k - 1)]
        nz == nonzero(i)
    IN  [n \in 1..Len(nz) |-> 1 + nz[n]]

----------------------------------------------------------------------------
(* interp_roots *)

\* y[1:]*y[:-1] <= 0 at 0-based position k.
cross_mask(ys, k) == Leq(Mul(ys[k + 2], ys[k + 1]), Num(0))

\* x0 - y0/(y1 - y0)*(x1 - x0)
root(x0, x1, y0, y1) == Sub(x0, Mul(Div(y0, Sub(y1, y0)), Sub(x1, x0)))

interp_roots(xs, ys, eqnan) ==
    LET i == nonzero(IF Len(ys) < 2 THEN <<>>
                     ELSE [k \in 1..(Len(ys) - 1) |-> cross_mask(ys, k - 1)])
        rs == [n \in 1..Len(i) |->
                 root(xs[i[n] + 1], xs[i[n] + 2], ys[i[n] + 1], ys[i[n] + 2])]
    IN  unique(rs, eqnan)

----------------------------------------------------------------------------
(* find_damping *)

\* amp/np.sqrt(2)
half_power(amp) == Div(amp, Sqrt2)

\* y = xy[:,1] - amp/np.sqrt(2), over the whole series
shifted(ys, amp) == [k \in 1..Len(ys) |-> Sub(ys[k], half_power(amp))]

\* Mutation: the slice written x[:j], y[:j], without the peak sample.
left_without_peak(xs, ys, j, eqnan) ==
    interp_roots(SubSeq(xs, 1, j), SubSeq(shifted(ys, ys[j + 1]), 1, j), eqnan)

\* left = interp_roots(x[:j + 1], y[:j + 1]) for the 0-based peak index j
left(xs, ys, j, eqnan) ==
    interp_roots(SubSeq(xs, 1, j + 1), SubSeq(shifted(ys, ys[j + 1]), 1, j + 1), eqnan)

\* right = interp_roots(x[j:], y[j:])
right(xs, ys, j, eqnan) ==
    interp_roots(SubSeq(xs, j + 1, Len(xs)),
                 SubSeq(shifted(ys, ys[j + 1]), j + 1, Len(ys)), eqnan)

\* if len(left) and len(right):
has_both(l, r) == Len(l) # 0 /\ Len(r) # 0

\* Q = fn/(right[0] - left[-1]) and the appended row [fn, 1/(2*Q)]
row(fn, l, r) ==
    LET Q == Div(fn, Sub(r[1], l[Len(l)]))
    IN  <<fn, Div(Num(1), Mul(Num(2), Q))>>

\* Mutation: the item put at the front of the list.
list_prepend(lst, item) == <<item>> \o lst

\* damping.append(item)
list_append(lst, item) == Append(lst, item)

----------------------------------------------------------------------------
(* Inputs *)

Amplitudes == {Num(n) : n \in (0 - 1)..MaxAmp} \cup {Sqrt2}

\* Series of n frequencies, strictly increasing.
Frequencies(n) ==
    {f \in [1..n -> {Num(v) : v \in 0..MaxX}] :
        \A k \in 1..(n - 1) : Lt(f[k], f[k + 1])}

Init ==
    /\ \E n \in 0..MaxLen :
          /\ x \in Frequencies(n)
          /\ y \in [1..n -> Amplitudes]
    /\ equal_nan \in BOOLEAN
    /\ pc = "idle"
    /\ peaks = <<>>
    /\ roots = <<>>
    /\ todo = <<>>
    /\ damping = <<>>

----------------------------------------------------------------------------
(* Calls *)

\* find_peaks(y) called and returned.
call_find_peaks ==
    /\ pc = "idle"
    /\ peaks' = find_peaks(y)
    /\ pc' = "find_peaks"
    /\ UNCHANGED <<x, y, equal_nan, roots, todo, damping>>

\* interp_roots(x, y) called and returned.
call_interp_roots ==
    /\ pc = "idle"
    /\ roots' = interp_roots(x, y, equal_nan)
    /\ pc' = "interp_roots"
    /\ UNCHANGED <<x, y, equal_nan, peaks, todo, damping>>

\* find_damping(xy) entered: damping = [] and the loop over find_peaks(xy[:,1]).
find_damping_enter ==
    /\ pc = "idle"
    /\ damping' = <<>>
    /\ todo' = find_peaks(y)
    /\ pc' = "find_damping"
    /\ UNCHANGED <<x, y, equal_nan, peaks, roots>>

\* One pass of the loop for a peak that has roots on both sides.
find_damping_append ==
    /\ pc = "find_damping"
    /\ todo # <<>>
    /\ \E l \in {left(x, y, Head(todo), equal_nan)} :
       \E r \in {right(x, y, Head(todo), equal_nan)} :
          /\ has_both(l, r)
          /\ damping' = list_append(damping, row(x[Head(todo) + 1], l, r))
    /\ todo' = Tail(todo)
    /\ UNCHANGED <<x, y, equal_nan, pc, peaks, roots>>

\* One pass of the loop for a peak that lacks a root on a side.
find_damping_skip ==
    /\ pc = "find_damping"
    /\ todo # <<>>
    /\ ~has_both(left(x, y, Head(todo), equal_nan),
                 right(x, y, Head(todo), equal_nan))
    /\ todo' = Tail(todo)
    /\ UNCHANGED <<x, y, equal_nan, pc, peaks, roots, damping>>

\* return np.array(damping)
find_damping_return ==
    /\ pc = "find_damping"
    /\ todo = <<>>
    /\ pc' = "returned"
    /\ UNCHANGED <<x, y, equal_nan, peaks, roots, todo, damping>>

Next ==
    \/ call_find_peaks
    \/ call_interp_roots
    \/ find_damping_enter
    \/ find_damping_append
    \/ find_damping_skip
    \/ find_damping_return

Spec == Init /\ [][Next]_vars

----------------------------------------------------------------------------
(* Vocabulary of the properties *)

Range(s) == {s[n] : n \in 1..Len(s)}

Zero == Num(0)

\* The 0-based index i is an interior index of ys whose neighbouring
\* differences go from non-negative to non-positive.
LocalMax(ys, i) ==
    /\ 1 <= i /\ i <= Len(ys) - 2
    /\ Leq(ys[i], ys[i + 1])
    /\ Leq(ys[i + 2], ys[i + 1])

\* The 0-based index i is an interior strict local minimum of ys.
StrictLocalMin(ys, i) ==
    /\ 1 <= i /\ i <= Len(ys) - 2
    /\ Lt(ys[i + 1], ys[i])
    /\ Lt(ys[i + 1], ys[i + 2])

----------------------------------------------------------------------------
(* find_peaks *)

\* C4: find_peaks returns exactly the local maxima of y: an index is returned
\* if and only if it is an interior index whose neighbouring differences go
\* from non-negative to non-positive; each is returned once, and no strict
\* local minimum and no boundary index is returned.
C4_PeaksAreLocalMaxima ==
    pc = "find_peaks" =>
        /\ \A i \in Range(peaks) \cup (0..(Len(y) - 1)) :
              (i \in Range(peaks)) <=> LocalMax(y, i)
        /\ Cardinality(Range(peaks)) = Len(peaks)
        /\ \A i \in Range(peaks) :
              /\ ~StrictLocalMin(y, i)
              /\ i # 0 /\ i # Len(y) - 1

\* A series with a returned peak and with a strict local minimum.
C4_Witness ==
    /\ pc = "find_peaks"
    /\ peaks # <<>>
    /\ \E i \in 0..(Len(y) - 1) : StrictLocalMin(y, i)

\* ys rises to a maximum and falls from it: for some position m (1-based)
\* it is non-decreasing up to m and non-increasing from m on, and both ends
\* lie below ys[m].
Unimodal(ys) ==
    \E m \in 1..Len(ys) :
        /\ \A k \in 1..(m - 1) : Leq(ys[k], ys[k + 1])
        /\ \A k \in m..(Len(ys) - 1) : Leq(ys[k + 1], ys[k])
        /\ Lt(ys[1], ys[m])
        /\ Lt(ys[Len(ys)], ys[m])

\* ys is strictly increasing up to position m (1-based) and strictly
\* decreasing from it, m being an interior position.
StrictlyUnimodalAt(ys, m) ==
    /\ 1 < m /\ m < Len(ys)
    /\ \A k \in 1..(m - 1) : Lt(ys[k], ys[k + 1])
    /\ \A k \in m..(Len(ys) - 1) : Lt(ys[k + 1], ys[k])

NonDecreasing(ys) == \A k \in 1..(Len(ys) - 1) : Leq(ys[k], ys[k + 1])
NonIncreasing(ys) == \A k \in 1..(Len(ys) - 1) : Leq(ys[k + 1], ys[k])
StrictlyIncreasing(ys) == \A k \in 1..(Len(ys) - 1) : Lt(ys[k], ys[k + 1])
StrictlyDecreasing(ys) == \A k \in 1..(Len(ys) - 1) : Lt(ys[k + 1], ys[k])

\* C8 as stated: find_peaks returns the empty sequence for every series of
\* fewer than 3 samples, for the empty series and for every monotonic series.
C8_Original ==
    (pc = "find_peaks" /\ (Len(y) < 3 \/ NonDecreasing(y) \/ NonIncreasing(y)))
        => peaks = <<>>

\* C8 amended: find_peaks returns the empty sequence for every series of
\* fewer than 3 samples, for the empty series and for every strictly
\* monotonic series.
C8_EmptyOnShortOrStrictlyMonotonic ==
    (pc = "find_peaks"
        /\ (Len(y) < 3 \/ StrictlyIncreasing(y) \/ StrictlyDecreasing(y)))
        => peaks = <<>>

\* A strictly increasing series of at least three samples whose slope
\* decreases, for which find_peaks returned nothing.
C8_Witness ==
    /\ pc = "find_peaks"
    /\ Len(y) >= 3
    /\ StrictlyIncreasing(y)
    /\ \E k \in 1..(Len(y) - 2) :
          Lt(Sub(y[k + 2], y[k + 1]), Sub(y[k + 1], y[k]))
    /\ peaks = <<>>

\* Positions a..b (1-based) of ys are a plateau at a true extremum: equal
\* samples, two or more, preceded by a rise and followed by a fall.
PlateauTop(ys, a, b) ==
    /\ 1 < a /\ a < b /\ b < Len(ys)
    /\ \A k \in a..b : ys[k] = ys[a]
    /\ Lt(ys[a - 1], ys[a])
    /\ Lt(ys[b + 1], ys[b])

----------------------------------------------------------------------------
(* interp_roots *)

\* No two adjacent samples of ys are both zero.
NoAdjacentZeros(ys) ==
    \A k \in 1..(Len(ys) - 1) : ~(ys[k] = Zero /\ ys[k + 1] = Zero)

\* Positions k (1-based) of the adjacent pairs (k, k+1) with y0*y1 <= 0,
\* told by the signs of the two samples.
Crossings(ys) ==
    {k \in 1..(Len(ys) - 1) : Sgn(ys[k]) * Sgn(ys[k + 1]) <= 0}

\* The zero of the line through (x0, y0) and (x1, y1), y0 # y1.
LineZero(x0, x1, y0, y1) == Div(Sub(Mul(x0, y1), Mul(x1, y0)), Sub(y1, y0))

C9_NoIndeterminate ==
    /\ pc = "interp_roots" =>
          /\ \A n \in 1..Len(roots) : roots[n].k = "fin"
          /\ \A k \in 1..(Len(y) - 1) :
                (y[k] = Zero /\ y[k + 1] = Zero) =>
                    Cardinality({n \in 1..Len(roots) :
                                   roots[n] \in {x[k], x[k + 1]}}) >= 1
    /\ pc \in {"find_damping", "returned"} =>
          \A n \in 1..Len(damping) : damping[n][2].k = "fin"

----------------------------------------------------------------------------
(* find_damping *)

\* The amplitude column with the half-power level of the peak j subtracted.
HalfPowerShifted(j) == [k \in 1..Len(y) |-> Sub(y[k], Div(y[j + 1], Sqrt2))]

\* What interp_roots returns on the shifted samples 0..j and j..end.
RootsUpTo(j) ==
    interp_roots(SubSeq(x, 1, j + 1), SubSeq(HalfPowerShifted(j), 1, j + 1),
                 equal_nan)
RootsFrom(j) ==
    interp_roots(SubSeq(x, j + 1, Len(x)),
                 SubSeq(HalfPowerShifted(j), j + 1, Len(y)), equal_nan)

\* The 0-based peak index j has a root on both sides.
BothSides(j) == Len(RootsUpTo(j)) > 0 /\ Len(RootsFrom(j)) > 0

\* The peaks of the amplitude column that have a root on both sides, in the
\* order find_peaks returns them.
KeptPeaks == SelectSeq(find_peaks(y), BothSides)

\* The 0-based index of the sample whose frequency is f.
IndexOf(f) == CHOOSE j \in 0..(Len(x) - 1) : x[j + 1] = f

\* C1: find_damping returns at most one row per index returned by
\* find_peaks on the amplitude column; a peak contributes no row exactly when
\* interp_roots returns no root on samples 0..j or on samples j..end, and
\* every peak with a root on both sides contributes exactly one row.
C1_OneRowPerBracketedPeak ==
    pc = "returned" =>
        \E kept \in {KeptPeaks} :
            /\ Len(damping) <= Len(find_peaks(y))
            /\ Len(damping) = Len(kept)
            /\ \A n \in 1..Len(damping) : damping[n][1] = x[kept[n] + 1]

\* A returned result without a row for a peak that has a root on its left
\* side and none on its right side.
C1_Witness ==
    /\ pc = "returned"
    /\ \E j \in Range(find_peaks(y)) :
          /\ Len(RootsUpTo(j)) > 0 /\ Len(RootsFrom(j)) = 0
          /\ \A n \in 1..Len(damping) : damping[n][1] # x[j + 1]

\* C7: the rows of find_damping are in strictly ascending order of
\* frequency, the frequency column of the input being strictly increasing.
C7_RowsAscending ==
    pc \in {"find_damping", "returned"} =>
        \A n \in 1..(Len(damping) - 1) : Lt(damping[n][1], damping[n + 1][1])

\* A returned result of two or more rows, each with a finite damping ratio.
C7_Witness ==
    /\ pc = "returned"
    /\ Len(damping) >= 2
    /\ \A n \in 1..Len(damping) : damping[n][2].k = "fin"

\* C2: every damping ratio returned is strictly positive whenever the peak
\* has a left and a right half-power crossing and its amplitude is positive.
C2_DampingPositive ==
    pc = "returned" =>
        \A n \in 1..Len(damping) :
            Lt(Zero, y[IndexOf(damping[n][1]) + 1]) => Lt(Zero, damping[n][2])

\* The numbers among the roots s.
Finite(s) == {s[n] : n \in {m \in 1..Len(s) : s[m].k = "fin"}}

\* The damping ratio C3 gives for the 0-based peak index j: (r - l)/(2*fn)
\* with l the largest root of the left side and r the smallest of the right.
ClaimedDamping(j) ==
    LET ls == Finite(RootsUpTo(j))
        rs == Finite(RootsFrom(j))
    IN  IF ls = {} \/ rs = {} THEN NaN
        ELSE LET l == CHOOSE v \in ls : \A w \in ls : Leq(w, v)
                 r == CHOOSE v \in rs : \A w \in rs : Leq(v, w)
             IN  Div(Sub(r, l), Mul(Num(2), x[j + 1]))

\* C3: for each peak with roots on both sides find_damping emits the row
\* (fn, (r - l)/(2*fn)), l being the largest root found on samples 0..j and r
\* the smallest root found on samples j..end of the series shifted by
\* amp/sqrt(2).
C3_RowFormula ==
    pc = "returned" =>
        \E kept \in {KeptPeaks} :
            /\ Len(damping) = Len(kept)
            /\ \A n \in 1..Len(damping) :
                  /\ damping[n][1] = x[kept[n] + 1]
                  /\ damping[n][2].k = "fin"
                  /\ damping[n][2] = ClaimedDamping(kept[n])

====
